---- MODULE Spec2Model ----
(***************************************************************************)
(* A model of the dayly backend (FastAPI handlers over a Supabase store):  *)
(* groups and memberships, the daily send ledger, photos, invites.         *)
(*                                                                         *)
(* Every HTTP request is a process slot of Procs.  A handler is a chain of *)
(* steps, one per store round trip (`.execute()`), so that requests        *)
(* interleave exactly where the code lets them.  A store write may fail    *)
(* (the `.execute()` raises); the handler's own except clauses decide what *)
(* the caller then receives.                                               *)
(*                                                                         *)
(* Tables are bags of rows.  group_members is kept as a function from      *)
(* (group_id, user_id) to the sequence of is_active flags of the rows      *)
(* with that key; daily_sends, photos and invites are sequences of rows in *)
(* insertion order.                                                        *)
(***************************************************************************)
EXTENDS Integers, Sequences, FiniteSets, TLC

\* ------------------------------------------------------------------ bounds
NumProcs == 2
MaxGroups == 6
MaxPhotoGroups == 1
MaxInviteGroups == 1
MaxPhotos == 2
MaxInvites == 2
MaxNow == 2
TicksPerDay == 2
MaxViewNow == 5
MaxViewPhotos == 1
MaxNotifyPhotos == 2
MaxFanouts == 2
MaxGateInvites == 1
MaxTerminalPhotos == 2
MaxTerminalNow == 6

\* ------------------------------------------------------- program constants
MaxGroupsPerUser == 5
MaxNameLen == 50
MaxFileMiB == 10
CodeLen == 6
InviteTtlDays == 7
RecentInviteDays == 1
PhotoTtlDays == 2

\* ------------------------------------------------------------------ inputs
Procs == 1..NumProcs
Users == {"u1", "u2"}
GroupIds == 1..MaxGroups
NoUser == "none"
Null == -1

Date(t) == t \div TicksPerDay

\* ------------------------------------------------------------------- state
VARIABLES
    groups,          \* table groups: row i is [name, created_by], id = i
    group_members,   \* table group_members: (group_id, user_id) -> is_active flags
    daily_sends,     \* table daily_sends: rows [user_id, group_id, sent_date]
    photos,          \* table photos: rows [id, group_id, sender_id, created_at, expires_at]
    blobs,           \* storage bucket "photos": set of storage paths
    invites,         \* table invites: rows [code, group_id, phone_number, invited_by,
                     \*                      created_at, expires_at, used_at, used_by]
    sms_outbox,      \* background tasks queued by send_invites: <<phone, code>>
    upload_urls,     \* signed upload URLs handed out: storage paths
    next_uuid,       \* how many uuid4 values were drawn
    now,             \* the clock, in ticks
    req,             \* the request each process slot is serving
    sent_ok,         \* history: <<user, group, date>> of every upload_photo that returned 200
    redeemed_codes,  \* history: codes redeemed with success and not issued again since
    user_devices,    \* table user_devices: rows <<user_id, device_token>>
    notify_tasks,    \* background tasks schedule_group_notification(group, sender)
                     \* not yet started: [group_id, sender_id, photo_id]
    fanouts,         \* history: the evaluations of send_group_notification that
                     \* passed the first-photo check: [group_id, sender_id, at, count]
    committed,       \* history: ids of the photos whose submission returned 200
                     \* and whose notification has not been scheduled
    sms_sent         \* the messages the SMS service accepted: <<phone, code>>

store == <<groups, group_members, daily_sends, photos, blobs, invites, sms_outbox,
          upload_urls>>
push == <<user_devices, notify_tasks, fanouts, committed, sms_sent>>
vars == <<groups, group_members, daily_sends, photos, blobs, invites, sms_outbox,
          upload_urls, next_uuid, now, req, sent_ok, redeemed_codes,
          user_devices, notify_tasks, fanouts, committed, sms_sent>>

Idle ==
    [op |-> "idle", pc |-> "idle", user_id |-> NoUser, group_id |-> 0,
     name |-> <<>>, code |-> <<>>, file |-> [size |-> 0, content_type |-> ""], phones |-> <<>>, existing |-> <<>>,
     i |-> 0, n |-> 0, today |-> 0, photo_id |-> 0, invite |-> 0,
     row_case |-> "", added |-> 0, issued |-> 0, changed |-> FALSE,
     after_ok |-> FALSE, at |-> 0, members |-> {}, result |-> {},
     last_photo |-> {}, expires_at |-> 0, dispatched |-> {},
     status |-> 0, detail |-> ""]

\* raise HTTPException(status_code, detail) / return: the request ends, and the
\* locals that are no part of the response are dropped
Respond(r, status, detail) ==
    [r EXCEPT !.pc = "done", !.status = status, !.detail = detail,
              !.name = <<>>, !.file = Idle.file, !.phones = <<>>, !.existing = <<>>,
              !.i = 0, !.n = 0]

\* str(e) of the error a failed write raises: the store was unreachable, or a
\* uniqueness constraint rejected the row
StoreError(fails) == IF fails THEN "store error" ELSE "duplicate key"

Init ==
    /\ groups = <<>>
    /\ group_members = [k \in GroupIds \X Users |-> <<>>]
    /\ daily_sends = <<>>
    /\ photos = <<>>
    /\ blobs = {}
    /\ invites = <<>>
    /\ sms_outbox = {}
    /\ upload_urls = {}
    /\ next_uuid = 0
    /\ now = 0
    /\ req = [p \in Procs |-> Idle]
    /\ sent_ok = {}
    /\ redeemed_codes = {}
    /\ user_devices = {}
    /\ notify_tasks = {}
    /\ fanouts = <<>>
    /\ committed = {}
    /\ sms_sent = {}

\* ----------------------------------------------------------- store queries
\* .eq("group_id", g).eq("user_id", u) on group_members
MemberRows(g, u) == group_members[<<g, u>>]

\* ... .eq("is_active", True): the rows that are active
ActiveRows(g, u) == SelectSeq(MemberRows(g, u), LAMBDA a : a)

IsMemberAnyRow(g, u) == g \in GroupIds /\ MemberRows(g, u) # <<>>

\* if not membership.data, after .eq("is_active", True)
IsActiveMember(g, u) == g \in GroupIds /\ ActiveRows(g, u) # <<>>

\* select("group_id").eq("user_id", u).eq("is_active", True): one entry per row
RECURSIVE SumLen(_, _)
SumLen(S, u) ==
    IF S = {} THEN 0
    ELSE LET g == CHOOSE x \in S : TRUE
         IN Len(ActiveRows(g, u)) + SumLen(S \ {g}, u)

ActiveMembershipCount(u) == SumLen(GroupIds, u)

MemberInsertNeverConflicts(g, u) == FALSE

\* the uniqueness constraint of group_members on (group_id, user_id)
MemberInsertConflicts(g, u) == MemberRows(g, u) # <<>>

\* insert({group_id, user_id}): is_active defaults to true
InsertMember(g, u) ==
    [group_members EXCEPT ![<<g, u>>] = Append(@, TRUE)]

\* update({is_active: v}).eq("group_id", g).eq("user_id", u): every matching row
UpdateMember(g, u, v) ==
    [group_members EXCEPT ![<<g, u>>] = [j \in 1..Len(@) |-> v]]

\* --------------------------------------------------------------- Return
\* the response is sent; the slot takes the next request
Return(p) ==
    /\ req[p].pc = "done"
    /\ req' = [req EXCEPT ![p] = Idle]
    /\ UNCHANGED <<store, next_uuid, now, sent_ok, redeemed_codes, push>>

\* the clock advances
Tick(maxNow) ==
    /\ now < maxNow
    /\ now' = now + 1
    /\ UNCHANGED <<store, next_uuid, req, sent_ok, redeemed_codes, push>>

\* ------------------------------------------------------------ create_group
\* GroupCreate: Field(min_length=1, max_length=50), then validate_name strips
Strip(s) ==
    LET keep == {j \in 1..Len(s) : s[j] # " "}
    IN IF keep = {} THEN <<>>
       ELSE LET lo == CHOOSE j \in keep : \A k \in keep : j <= k
                hi == CHOOSE j \in keep : \A k \in keep : k <= j
            IN SubSeq(s, lo, hi)

NameSchemaOk(name) == Len(name) >= 1 /\ Len(name) <= MaxNameLen

GroupLimitReachedOffByOne(count) == count > MaxGroupsPerUser

\* if len(existing_groups.data) >= 5
GroupLimitReached(count) == count >= MaxGroupsPerUser

InternalErrorAsBadRequest == 400

\* except Exception as e: raise HTTPException(status_code=500, detail=str(e))
InternalError == 500

\* the request arrives: pydantic validates the body (422 before the handler runs)
CreateGroupBegin(p, u, name) ==
    /\ req[p].pc = "idle"
    /\ req' = [req EXCEPT ![p] =
                 IF NameSchemaOk(name)
                 THEN [Idle EXCEPT !.op = "create_group", !.pc = "cg_limit",
                                   !.user_id = u, !.name = Strip(name)]
                 ELSE Respond([Idle EXCEPT !.op = "create_group", !.user_id = u,
                                           !.name = name],
                              422, "validation error")]
    /\ UNCHANGED <<store, next_uuid, now, sent_ok, redeemed_codes, push>>

\* the group-limit read, then the name length check
CreateGroupLimit(p) ==
    /\ req[p].pc = "cg_limit"
    /\ LET r == req[p]
           count == ActiveMembershipCount(r.user_id)
       IN req' = [req EXCEPT ![p] =
                    IF GroupLimitReached(count)
                    THEN Respond([r EXCEPT !.n = count], 400, "Maximum 5 groups allowed")
                    ELSE IF Len(r.name) > MaxNameLen
                    THEN Respond([r EXCEPT !.n = count], 400, "Group name too long")
                    ELSE [r EXCEPT !.n = count, !.pc = "cg_group"]]
    /\ UNCHANGED <<store, next_uuid, now, sent_ok, redeemed_codes, push>>

\* insert into groups; a raised error is caught by `except Exception` -> 500
CreateGroupInsertGroup(p, maxGroups) ==
    /\ req[p].pc = "cg_group"
    /\ \E fails \in BOOLEAN :
         IF fails
         THEN /\ req' = [req EXCEPT ![p] = Respond(@, InternalError, "store error")]
              /\ UNCHANGED groups
         ELSE /\ Len(groups) < maxGroups
              /\ groups' = Append(groups, [name |-> req[p].name,
                                            created_by |-> req[p].user_id])
              /\ req' = [req EXCEPT ![p] = [@ EXCEPT !.group_id = Len(groups) + 1,
                                                      !.pc = "cg_member"]]
    /\ UNCHANGED <<group_members, daily_sends, photos, blobs, invites, sms_outbox,
                   upload_urls, next_uuid, now, sent_ok, redeemed_codes, push>>

\* insert the creator into group_members, then return the new group.
\* (member_phone_numbers passed the schema, so the startswith("+") loop never raises)
CreateGroupInsertMember(p) ==
    /\ req[p].pc = "cg_member"
    /\ LET r == req[p]
       IN \E fails \in BOOLEAN :
            IF fails \/ MemberInsertConflicts(r.group_id, r.user_id)
            THEN /\ req' = [req EXCEPT ![p] = Respond(r, InternalError, StoreError(fails))]
                 /\ UNCHANGED group_members
            ELSE /\ group_members' = InsertMember(r.group_id, r.user_id)
                 /\ req' = [req EXCEPT ![p] = Respond([r EXCEPT !.changed = TRUE], 200, "ok")]
    /\ UNCHANGED <<groups, daily_sends, photos, blobs, invites, sms_outbox,
                   upload_urls, next_uuid, now, sent_ok, redeemed_codes, push>>

\* ------------------------------------------------------------- leave_group
\* update is_active = False on the caller's rows; "404" is raised inside the
\* try block, whose `except Exception` turns every exception into a 500
LeaveGroup(p, u, g) ==
    /\ req[p].pc = "idle"
    /\ \E fails \in BOOLEAN :
         LET r == [Idle EXCEPT !.op = "leave_group", !.user_id = u, !.group_id = g]
         IN IF fails
            THEN /\ req' = [req EXCEPT ![p] = Respond(r, 500, "store error")]
                 /\ UNCHANGED group_members
            ELSE IF MemberRows(g, u) = <<>>
            THEN /\ req' = [req EXCEPT ![p] = Respond(r, 500, "404: Membership not found")]
                 /\ UNCHANGED group_members
            ELSE /\ group_members' = UpdateMember(g, u, FALSE)
                 /\ req' = [req EXCEPT ![p] = Respond([r EXCEPT !.changed = TRUE], 200, "ok")]
    /\ UNCHANGED <<groups, daily_sends, photos, blobs, invites, sms_outbox,
                   upload_urls, next_uuid, now, sent_ok, redeemed_codes, push>>

\* ----------------------------------------------------------------- invites
\* string.ascii_uppercase + string.digits, cut down to the characters in use
CodeAlphabet == {"K", "X", "Q", "7", "9", "2"}

\* str.upper() on one character
UpperChar(c) ==
    CASE c = "k" -> "K"
      [] c = "x" -> "X"
      [] c = "q" -> "Q"
      [] OTHER -> c

\* code.upper()
Upper(code) == [j \in 1..Len(code) |-> UpperChar(code[j])]

\* the values generate_invite_code() may draw here (secrets.choice, 6 times)
GenCodes ==
    {c \in {<<"7", "K", "9", "X", "Q", "2">>, <<"K", "K", "7", "7", "Q", "2">>} :
        Len(c) = CodeLen /\ \A j \in 1..Len(c) : c[j] \in CodeAlphabet}

\* the spellings a caller may type
TypedCodes ==
    GenCodes \cup {<<"7", "k", "9", "x", "q", "2">>, <<"9", "9", "9", "9", "9", "9">>}

Phones == {"+14155550100", "+14155550101"}

InviteTtl == InviteTtlDays * TicksPerDay
RecentInviteWindow == RecentInviteDays * TicksPerDay

\* .gte("expires_at", now).is_("used_at", "null")
InviteIsLive(row, t) == row.expires_at >= t /\ row.used_at = Null

MatchIgnoringUsedAt(code, t) ==
    {j \in 1..Len(invites) : invites[j].code = Upper(code) /\ invites[j].expires_at >= t}

\* .eq("code", code.upper()).gte("expires_at", now).is_("used_at", "null")
MatchInvites(code, t) ==
    {j \in 1..Len(invites) : invites[j].code = Upper(code) /\ InviteIsLive(invites[j], t)}

\* the uniqueness constraint of invites on code, among the live invites
InviteInsertConflicts(code, t) ==
    \E j \in 1..Len(invites) : invites[j].code = code /\ InviteIsLive(invites[j], t)

\* .eq("phone_number", phone).eq("group_id", g).gte("created_at", now - 1 day)
RecentInvites(phone, g, t) ==
    {j \in 1..Len(invites) : /\ invites[j].phone_number = phone
                             /\ invites[j].group_id = g
                             /\ invites[j].created_at >= t - RecentInviteWindow}

\* update({used_at, used_by}).eq("code", code.upper()): every row with the code
MarkUsed(code, t, u) ==
    [j \in 1..Len(invites) |->
        IF invites[j].code = Upper(code)
        THEN [invites[j] EXCEPT !.used_at = t, !.used_by = u]
        ELSE invites[j]]

\* ------------------------------------------------------------ send_invites
\* the membership read, then the reads of the group and of the sender profile
SendInvitesBegin(p, u, g, phones, existing) ==
    /\ req[p].pc = "idle"
    /\ LET r == [Idle EXCEPT !.op = "send_invites", !.user_id = u, !.group_id = g,
                             !.phones = phones, !.existing = existing]
       IN req' = [req EXCEPT ![p] =
                    IF ~IsActiveMember(g, u)
                    THEN Respond(r, 403, "Not a member of this group")
                    ELSE IF g > Len(groups)
                    THEN Respond(r, 404, "Group not found")
                    ELSE [r EXCEPT !.pc = "si_recent", !.i = 1]]
    /\ UNCHANGED <<store, next_uuid, now, sent_ok, redeemed_codes, push>>

\* for phone in data.phone_numbers: the read of the recent invites
SendInvitesRecent(p) ==
    /\ req[p].pc = "si_recent"
    /\ LET r == req[p]
       IN req' = [req EXCEPT ![p] =
                    IF r.i > Len(r.phones)
                    THEN [r EXCEPT !.pc = "si_member", !.i = 1]
                    ELSE IF RecentInvites(r.phones[r.i], r.group_id, now) # {}
                    THEN [r EXCEPT !.i = r.i + 1]
                    ELSE [r EXCEPT !.pc = "si_insert"]]
    /\ UNCHANGED <<store, next_uuid, now, sent_ok, redeemed_codes, push>>

\* generate_invite_code(), the insert, and the SMS task queued for it.
\* send_invites has no try block: a raised error leaves as a 500
SendInvitesInsert(p, maxInvites) ==
    /\ req[p].pc = "si_insert"
    /\ LET r == req[p]
       IN \E fails \in BOOLEAN, code \in GenCodes :
            IF fails \/ InviteInsertConflicts(code, now)
            THEN /\ req' = [req EXCEPT ![p] = Respond(r, 500, StoreError(fails))]
                 /\ UNCHANGED <<invites, sms_outbox, redeemed_codes>>
            ELSE /\ Len(invites) < maxInvites
                 /\ invites' = Append(invites,
                        [code |-> code, group_id |-> r.group_id,
                         phone_number |-> r.phones[r.i], invited_by |-> r.user_id,
                         created_at |-> now, expires_at |-> now + InviteTtl,
                         used_at |-> Null, used_by |-> NoUser])
                 /\ sms_outbox' = sms_outbox \cup {<<r.phones[r.i], code>>}
                 /\ redeemed_codes' = redeemed_codes \ {code}
                 /\ req' = [req EXCEPT ![p] = [r EXCEPT !.pc = "si_recent", !.i = r.i + 1,
                                                         !.issued = r.issued + 1]]
    /\ UNCHANGED <<groups, group_members, daily_sends, photos, blobs, upload_urls,
                   next_uuid, now, sent_ok, push>>

\* for user_data in data.existing_users: the read of the membership rows
SendInvitesMember(p) ==
    /\ req[p].pc = "si_member"
    /\ LET r == req[p]
       IN req' = [req EXCEPT ![p] =
                    IF r.i > Len(r.existing)
                    THEN Respond(r, 200, "ok")
                    ELSE IF MemberRows(r.group_id, r.existing[r.i]) # <<>>
                    THEN [r EXCEPT !.i = r.i + 1]
                    ELSE [r EXCEPT !.pc = "si_add"]]
    /\ UNCHANGED <<store, next_uuid, now, sent_ok, redeemed_codes, push>>

\* the insert of the existing user into group_members
SendInvitesAdd(p) ==
    /\ req[p].pc = "si_add"
    /\ LET r == req[p]
           u == r.existing[r.i]
       IN \E fails \in BOOLEAN :
            IF fails \/ MemberInsertConflicts(r.group_id, u)
            THEN /\ req' = [req EXCEPT ![p] = Respond(r, 500, StoreError(fails))]
                 /\ UNCHANGED group_members
            ELSE /\ group_members' = InsertMember(r.group_id, u)
                 /\ req' = [req EXCEPT ![p] = [r EXCEPT !.pc = "si_member", !.i = r.i + 1,
                                                         !.added = r.added + 1]]
    /\ UNCHANGED <<groups, daily_sends, photos, blobs, invites, sms_outbox,
                   upload_urls, next_uuid, now, sent_ok, redeemed_codes, push>>

SendInviteSmsTaskRollsBack(task) ==
    /\ task \in sms_outbox
    /\ sms_outbox' = sms_outbox \ {task}
    /\ \E fails \in BOOLEAN :
         /\ sms_sent' = IF fails THEN sms_sent ELSE sms_sent \cup {task}
         /\ invites' = IF fails
                       THEN SelectSeq(invites, LAMBDA row : row.code # task[2])
                       ELSE invites
    /\ UNCHANGED <<groups, group_members, daily_sends, photos, blobs,
                   upload_urls, next_uuid, now, req, sent_ok, redeemed_codes,
                   user_devices, notify_tasks, fanouts, committed>>

\* send_invite_sms_task: a queued task runs after the response was sent; an
\* error of send_invite_sms is printed and dropped
SendInviteSmsTask(task) ==
    /\ task \in sms_outbox
    /\ sms_outbox' = sms_outbox \ {task}
    /\ \E fails \in BOOLEAN :
         sms_sent' = IF fails THEN sms_sent ELSE sms_sent \cup {task}
    /\ UNCHANGED <<groups, group_members, daily_sends, photos, blobs, invites,
                   upload_urls, next_uuid, now, req, sent_ok, redeemed_codes,
                   user_devices, notify_tasks, fanouts, committed>>

\* ----------------------------------------------------------- redeem_invite
RedeemLookupIgnoringUsedAt(code, t) == MatchIgnoringUsedAt(code, t)

RedeemLookupExactCase(code, t) ==
    {j \in 1..Len(invites) : invites[j].code = code /\ InviteIsLive(invites[j], t)}

\* the rows the "find valid invite" query returns
RedeemLookup(code, t) == MatchInvites(code, t)

\* the invite read: .single() gives the one matching row; the handler takes
\* an answer without data for "no such invite"
RedeemBegin(p, u, code) ==
    /\ req[p].pc = "idle"
    /\ LET r == [Idle EXCEPT !.op = "redeem_invite", !.user_id = u, !.code = code,
                             !.after_ok = (Upper(code) \in redeemed_codes)]
           found == RedeemLookup(code, now)
       IN req' = [req EXCEPT ![p] =
                    IF found = {}
                    THEN Respond(r, 404, "Invalid or expired invite code")
                    ELSE IF Cardinality(found) > 1
                    THEN Respond(r, 500, "multiple rows returned")
                    ELSE LET j == CHOOSE x \in found : TRUE
                         IN [r EXCEPT !.pc = "ri_member", !.invite = j,
                                      !.group_id = invites[j].group_id]]
    /\ UNCHANGED <<store, next_uuid, now, sent_ok, redeemed_codes, push>>

RedeemRowCaseNoActiveCheck(rows) ==
    IF rows = <<>> THEN "none" ELSE "inactive"

\* existing_member.data, and is_active of its first row
RedeemRowCase(rows) ==
    IF rows = <<>> THEN "none"
    ELSE IF ~rows[1] THEN "inactive"
    ELSE "active"

\* the membership read
RedeemMember(p) ==
    /\ req[p].pc = "ri_member"
    /\ LET r == req[p]
           case == RedeemRowCase(MemberRows(r.group_id, r.user_id))
       IN req' = [req EXCEPT ![p] =
                    IF case = "active"
                    THEN Respond([r EXCEPT !.row_case = case], 400,
                                 "Already a member of this group")
                    ELSE [r EXCEPT !.row_case = case, !.pc = "ri_write"]]
    /\ UNCHANGED <<store, next_uuid, now, sent_ok, redeemed_codes, push>>

\* the membership write: reactivate the inactive row, or insert a new one
RedeemWrite(p) ==
    /\ req[p].pc = "ri_write"
    /\ LET r == req[p]
       IN \E fails \in BOOLEAN :
            IF fails \/ (r.row_case = "none" /\ MemberInsertConflicts(r.group_id, r.user_id))
            THEN /\ req' = [req EXCEPT ![p] = Respond(r, 500, StoreError(fails))]
                 /\ UNCHANGED group_members
            ELSE /\ group_members' =
                       IF r.row_case = "inactive"
                       THEN UpdateMember(r.group_id, r.user_id, TRUE)
                       ELSE InsertMember(r.group_id, r.user_id)
                 /\ req' = [req EXCEPT ![p] = [r EXCEPT !.pc = "ri_mark", !.changed = TRUE]]
    /\ UNCHANGED <<groups, daily_sends, photos, blobs, invites, sms_outbox,
                   upload_urls, next_uuid, now, sent_ok, redeemed_codes, push>>

\* mark the invite as used, then return the group
RedeemMark(p) ==
    /\ req[p].pc = "ri_mark"
    /\ LET r == req[p]
       IN \E fails \in BOOLEAN :
            IF fails
            THEN /\ req' = [req EXCEPT ![p] = Respond(r, 500, "store error")]
                 /\ UNCHANGED <<invites, redeemed_codes>>
            ELSE /\ invites' = MarkUsed(r.code, now, r.user_id)
                 /\ redeemed_codes' = redeemed_codes \cup {Upper(r.code)}
                 /\ req' = [req EXCEPT ![p] = Respond(r, 200, "ok")]
    /\ UNCHANGED <<groups, group_members, daily_sends, photos, blobs, sms_outbox,
                   upload_urls, next_uuid, now, sent_ok, push>>

\* ------------------------------------------------------------------ photos
PhotoTtlOneDay == TicksPerDay

\* the column default of photos.expires_at: 48 hours after the insert
PhotoTtl == PhotoTtlDays * TicksPerDay

AllowedTypes == {"image/jpeg", "image/jpg", "image/png", "image/heif", "image/heic"}

\* the files a caller may send: size in MiB, content type
Files == {[size |-> 1, content_type |-> "image/jpeg"],
          [size |-> 11, content_type |-> "image/jpeg"],
          [size |-> 1, content_type |-> "text/plain"]}

GoodFiles == {[size |-> 1, content_type |-> "image/jpeg"]}

\* f"{group_id}/{user_id}/{photo_id}.jpg"
StoragePath(g, u, id) == <<g, u, id>>

\* .eq("user_id", u).eq("group_id", g).eq("sent_date", d) on daily_sends
DailySendRows(u, g, d) ==
    {j \in 1..Len(daily_sends) : /\ daily_sends[j].user_id = u
                                 /\ daily_sends[j].group_id = g
                                 /\ daily_sends[j].sent_date = d}

DailySendInsertNeverConflicts(u, g, d) == FALSE

\* the uniqueness constraint of daily_sends on (user_id, group_id, sent_date)
DailySendInsertConflicts(u, g, d) == DailySendRows(u, g, d) # {}

InsertDailySend(u, g, d) ==
    Append(daily_sends, [user_id |-> u, group_id |-> g, sent_date |-> d])

\* the primary key of photos
PhotoInsertConflicts(id) == \E j \in 1..Len(photos) : photos[j].id = id

InsertPhotoRenewing(id, g, u, t) ==
    Append([j \in 1..Len(photos) |->
               IF photos[j].group_id = g
               THEN [photos[j] EXCEPT !.expires_at = t + PhotoTtl]
               ELSE photos[j]],
           [id |-> id, group_id |-> g, sender_id |-> u,
            created_at |-> t, expires_at |-> t + PhotoTtl])

\* insert into photos: created_at and expires_at are column defaults
InsertPhoto(id, g, u, t) ==
    Append(photos, [id |-> id, group_id |-> g, sender_id |-> u,
                    created_at |-> t, expires_at |-> t + PhotoTtl])

\* the Photo rows of one sender in one group created on one calendar day
PhotosOf(u, g, d) ==
    {j \in 1..Len(photos) : /\ photos[j].sender_id = u
                            /\ photos[j].group_id = g
                            /\ Date(photos[j].created_at) = d}

\* ------------------------------------------------------------ upload_photo
\* the membership read
UploadBegin(p, u, g, file) ==
    /\ req[p].pc = "idle"
    /\ LET r == [Idle EXCEPT !.op = "upload_photo", !.user_id = u, !.group_id = g,
                             !.file = file,
                             !.after_ok = (<<u, g, Date(now)>> \in sent_ok)]
       IN req' = [req EXCEPT ![p] =
                    IF ~IsActiveMember(g, u)
                    THEN Respond(r, 403, "Not a member of this group")
                    ELSE [r EXCEPT !.pc = "up_daily"]]
    /\ UNCHANGED <<store, next_uuid, now, sent_ok, redeemed_codes, push>>

AlreadySentNever(u, g, d) == FALSE

AlreadySentAnyDay(u, g, d) ==
    \E row \in {daily_sends[j] : j \in 1..Len(daily_sends)} :
        row.user_id = u /\ row.group_id = g

\* if existing_send.data
AlreadySent(u, g, d) == DailySendRows(u, g, d) # {}

\* today is taken, the daily limit is read, the file is validated, the id is drawn
UploadDaily(p, maxUuid) ==
    /\ req[p].pc = "up_daily"
    /\ LET r == [req[p] EXCEPT !.today = Date(now),
                                !.after_ok = (<<req[p].user_id, req[p].group_id,
                                                Date(now)>> \in sent_ok)]
       IN IF AlreadySent(r.user_id, r.group_id, r.today)
          THEN /\ req' = [req EXCEPT ![p] =
                            Respond(r, 400, "Already sent photo to this group today")]
               /\ UNCHANGED next_uuid
          ELSE IF r.file.size > MaxFileMiB
          THEN /\ req' = [req EXCEPT ![p] = Respond(r, 413, "File too large")]
               /\ UNCHANGED next_uuid
          ELSE IF r.file.content_type \notin AllowedTypes
          THEN /\ req' = [req EXCEPT ![p] = Respond(r, 415, "Invalid file type")]
               /\ UNCHANGED next_uuid
          ELSE /\ next_uuid < maxUuid
               /\ next_uuid' = next_uuid + 1
               /\ req' = [req EXCEPT ![p] = [r EXCEPT !.photo_id = next_uuid + 1,
                                                       !.pc = "up_blob"]]
    /\ UNCHANGED <<store, now, sent_ok, redeemed_codes, push>>

\* the upload to storage; its error is answered with a 500
UploadBlob(p) ==
    /\ req[p].pc = "up_blob"
    /\ LET r == req[p]
       IN \E fails \in BOOLEAN :
            IF fails
            THEN /\ req' = [req EXCEPT ![p] = Respond(r, 500, "Upload failed")]
                 /\ UNCHANGED blobs
            ELSE /\ blobs' = blobs \cup {StoragePath(r.group_id, r.user_id, r.photo_id)}
                 /\ req' = [req EXCEPT ![p] = [r EXCEPT !.pc = "up_photo"]]
    /\ UNCHANGED <<groups, group_members, daily_sends, photos, invites, sms_outbox,
                   upload_urls, next_uuid, now, sent_ok, redeemed_codes, push>>

\* the insert into photos.  It may raise (the outer except answers 500 and the
\* blob stays), or return no data (the blob is removed, if the remove works)
UploadPhotoRow(p, maxPhotos) ==
    /\ req[p].pc = "up_photo"
    /\ LET r == req[p]
           path == StoragePath(r.group_id, r.user_id, r.photo_id)
       IN \E outcome \in {"ok", "raises", "no_data", "no_data_remove_fails"} :
            CASE outcome = "ok" /\ ~PhotoInsertConflicts(r.photo_id) ->
                   /\ Len(photos) < maxPhotos
                   /\ photos' = InsertPhoto(r.photo_id, r.group_id, r.user_id, now)
                   /\ req' = [req EXCEPT ![p] =
                                [r EXCEPT !.pc = "up_mark",
                                          !.expires_at = photos'[Len(photos')].expires_at]]
                   /\ UNCHANGED blobs
              [] outcome = "no_data" ->
                   /\ blobs' = blobs \ {path}
                   /\ req' = [req EXCEPT ![p] =
                                Respond(r, 500, "Failed to create photo record")]
                   /\ UNCHANGED photos
              [] outcome = "no_data_remove_fails" ->
                   /\ req' = [req EXCEPT ![p] =
                                Respond(r, 500, "Failed to create photo record")]
                   /\ UNCHANGED <<photos, blobs>>
              [] OTHER ->
                   /\ req' = [req EXCEPT ![p] =
                                Respond(r, 500, StoreError(outcome = "raises"))]
                   /\ UNCHANGED <<photos, blobs>>
    /\ UNCHANGED <<groups, group_members, daily_sends, invites, sms_outbox,
                   upload_urls, next_uuid, now, sent_ok, redeemed_codes, push>>

\* the insert into daily_sends (with the today taken earlier), then the response;
\* an error raised by the insert reaches `except Exception` -> 500
UploadMark(p) ==
    /\ req[p].pc = "up_mark"
    /\ LET r == req[p]
       IN \E fails \in BOOLEAN :
            IF fails \/ DailySendInsertConflicts(r.user_id, r.group_id, r.today)
            THEN /\ req' = [req EXCEPT ![p] = Respond(r, 500, StoreError(fails))]
                 /\ UNCHANGED <<daily_sends, sent_ok, committed>>
            ELSE /\ daily_sends' = InsertDailySend(r.user_id, r.group_id, r.today)
                 /\ sent_ok' = sent_ok \cup {<<r.user_id, r.group_id, r.today>>}
                 /\ committed' = committed \cup {r.photo_id}
                 /\ req' = [req EXCEPT ![p] = Respond([r EXCEPT !.changed = TRUE], 200, "ok")]
    /\ UNCHANGED <<groups, group_members, photos, blobs, invites, sms_outbox,
                   upload_urls, next_uuid, now, redeemed_codes,
                   user_devices, notify_tasks, fanouts, sms_sent>>

\* ------------------------------------------- get_upload_url, confirm_upload
\* no membership or daily-limit check is made: an id is drawn and a URL signed
GetUploadUrl(p, u, g, maxUuid) ==
    /\ req[p].pc = "idle"
    /\ next_uuid < maxUuid
    /\ next_uuid' = next_uuid + 1
    /\ upload_urls' = upload_urls \cup {StoragePath(g, u, next_uuid + 1)}
    /\ req' = [req EXCEPT ![p] =
                 Respond([Idle EXCEPT !.op = "get_upload_url", !.user_id = u,
                                      !.group_id = g, !.photo_id = next_uuid + 1], 200, "ok")]
    /\ UNCHANGED <<groups, group_members, daily_sends, photos, blobs, invites,
                   sms_outbox, now, sent_ok, redeemed_codes, push>>

\* the client puts the bytes to a signed URL
DirectUpload(path) ==
    /\ path \in upload_urls
    /\ path \notin blobs
    /\ blobs' = blobs \cup {path}
    /\ UNCHANGED <<groups, group_members, daily_sends, photos, invites, sms_outbox,
                   upload_urls, next_uuid, now, req, sent_ok, redeemed_codes, push>>

\* the insert into photos; every error is answered with a 500
ConfirmUploadBegin(p, u, g, id, maxPhotos) ==
    /\ req[p].pc = "idle"
    /\ LET r == [Idle EXCEPT !.op = "confirm_upload", !.user_id = u, !.group_id = g,
                             !.photo_id = id]
       IN \E fails \in BOOLEAN :
            IF fails \/ PhotoInsertConflicts(id)
            THEN /\ req' = [req EXCEPT ![p] = Respond(r, 500, StoreError(fails))]
                 /\ UNCHANGED photos
            ELSE /\ Len(photos) < maxPhotos
                 /\ photos' = InsertPhoto(id, g, u, now)
                 /\ req' = [req EXCEPT ![p] = [r EXCEPT !.pc = "cu_mark"]]
    /\ UNCHANGED <<groups, group_members, daily_sends, blobs, invites, sms_outbox,
                   upload_urls, next_uuid, now, sent_ok, redeemed_codes, push>>

\* today is taken and the daily_sends row inserted
ConfirmUploadMark(p) ==
    /\ req[p].pc = "cu_mark"
    /\ LET r == [req[p] EXCEPT !.today = Date(now)]
       IN \E fails \in BOOLEAN :
            IF fails \/ DailySendInsertConflicts(r.user_id, r.group_id, r.today)
            THEN /\ req' = [req EXCEPT ![p] = Respond(r, 500, StoreError(fails))]
                 /\ UNCHANGED <<daily_sends, committed>>
            ELSE /\ daily_sends' = InsertDailySend(r.user_id, r.group_id, r.today)
                 /\ committed' = committed \cup {r.photo_id}
                 /\ req' = [req EXCEPT ![p] = Respond([r EXCEPT !.changed = TRUE], 200, "ok")]
    /\ UNCHANGED <<groups, group_members, photos, blobs, invites, sms_outbox,
                   upload_urls, next_uuid, now, sent_ok, redeemed_codes,
                   user_devices, notify_tasks, fanouts, sms_sent>>

\* ------------------------------------------------------- get_todays_photos
\* .eq("group_id", g).gte("expires_at", t) on photos: the ids of the rows
ActivePhotos(g, t) ==
    {photos[j].id : j \in {k \in 1..Len(photos) : /\ photos[k].group_id = g
                                                   /\ photos[k].expires_at >= t}}

\* the membership read
GetTodaysPhotosBegin(p, u, g) ==
    /\ req[p].pc = "idle"
    /\ LET r == [Idle EXCEPT !.op = "get_todays_photos", !.user_id = u, !.group_id = g]
       IN req' = [req EXCEPT ![p] =
                    IF ~IsActiveMember(g, u)
                    THEN Respond(r, 403, "Not a member of this group")
                    ELSE [r EXCEPT !.pc = "gp_read"]]
    /\ UNCHANGED <<store, next_uuid, now, sent_ok, redeemed_codes, push>>

\* datetime.utcnow() is taken and the photos are read; a signed URL is made for
\* each (an error of the storage service is answered with a 500)
GetTodaysPhotosRead(p) ==
    /\ req[p].pc = "gp_read"
    /\ LET r == [req[p] EXCEPT !.at = now]
       IN \E fails \in BOOLEAN :
            req' = [req EXCEPT ![p] =
                      IF fails /\ ActivePhotos(r.group_id, now) # {}
                      THEN Respond(r, 500, "store error")
                      ELSE Respond([r EXCEPT !.result = ActivePhotos(r.group_id, now)],
                                   200, "ok")]
    /\ UNCHANGED <<store, next_uuid, now, sent_ok, redeemed_codes, push>>

\* --------------------------------------------------------- mark_sent_today
\* upsert({user_id, group_id, sent_date}) on daily_sends: the row is inserted,
\* or, when the key is there, written over with the same values
UpsertDailySend(u, g, d) ==
    IF DailySendRows(u, g, d) # {} THEN daily_sends ELSE InsertDailySend(u, g, d)

\* the membership read
MarkSentBegin(p, u, g) ==
    /\ req[p].pc = "idle"
    /\ LET r == [Idle EXCEPT !.op = "mark_sent_today", !.user_id = u, !.group_id = g]
       IN req' = [req EXCEPT ![p] =
                    IF ~IsActiveMember(g, u)
                    THEN Respond(r, 403, "Not a member of this group")
                    ELSE [r EXCEPT !.pc = "ms_upsert"]]
    /\ UNCHANGED <<store, next_uuid, now, sent_ok, redeemed_codes, push>>

\* today is taken and the row upserted
MarkSentUpsert(p) ==
    /\ req[p].pc = "ms_upsert"
    /\ LET r == [req[p] EXCEPT !.today = Date(now)]
       IN \E fails \in BOOLEAN :
            IF fails
            THEN /\ req' = [req EXCEPT ![p] = Respond(r, 500, StoreError(fails))]
                 /\ UNCHANGED daily_sends
            ELSE /\ daily_sends' = UpsertDailySend(r.user_id, r.group_id, r.today)
                 /\ req' = [req EXCEPT ![p] =
                              Respond([r EXCEPT !.changed = TRUE], 200, "ok")]
    /\ UNCHANGED <<groups, group_members, photos, blobs, invites, sms_outbox,
                   upload_urls, next_uuid, now, sent_ok, redeemed_codes, push>>

\* ----------------------------------------------------------------- devices
DeviceTokens == {"t1", "t2"}

\* register_device: upsert on (user_id, device_token)
RegisterDevice(p, u, tok) ==
    /\ req[p].pc = "idle"
    /\ LET r == [Idle EXCEPT !.op = "register_device", !.user_id = u]
       IN \E fails \in BOOLEAN :
            IF fails
            THEN /\ req' = [req EXCEPT ![p] = Respond(r, 500, StoreError(fails))]
                 /\ UNCHANGED user_devices
            ELSE /\ user_devices' = user_devices \cup {<<u, tok>>}
                 /\ req' = [req EXCEPT ![p] = Respond(r, 200, "ok")]
    /\ UNCHANGED <<store, next_uuid, now, sent_ok, redeemed_codes,
                   notify_tasks, fanouts, committed, sms_sent>>

\* unregister_device: delete().eq("user_id", u).eq("device_token", tok)
UnregisterDevice(p, u, tok) ==
    /\ req[p].pc = "idle"
    /\ LET r == [Idle EXCEPT !.op = "unregister_device", !.user_id = u]
       IN \E fails \in BOOLEAN :
            IF fails
            THEN /\ req' = [req EXCEPT ![p] = Respond(r, 500, StoreError(fails))]
                 /\ UNCHANGED user_devices
            ELSE /\ user_devices' = user_devices \ {<<u, tok>>}
                 /\ req' = [req EXCEPT ![p] = Respond(r, 200, "ok")]
    /\ UNCHANGED <<store, next_uuid, now, sent_ok, redeemed_codes,
                   notify_tasks, fanouts, committed, sms_sent>>

\* ------------------------------------------------- send_group_notification
\* schedule_group_notification(group_id, sender_id) is handed to the
\* background tasks; photo_id names the photo it was scheduled for (0: none)
ScheduleGroupNotification(g, s, maxFanouts) ==
    /\ Len(fanouts) < maxFanouts
    /\ notify_tasks' = notify_tasks \cup
                          {[group_id |-> g, sender_id |-> s, photo_id |-> 0]}
    /\ UNCHANGED <<store, next_uuid, now, req, sent_ok, redeemed_codes,
                   user_devices, fanouts, committed, sms_sent>>

\* after a submission has returned 200 the notification is scheduled for its
\* photo, once
OnPhotoCommitted(id) ==
    /\ id \in committed
    /\ \E j \in 1..Len(photos) :
         /\ photos[j].id = id
         /\ notify_tasks' = notify_tasks \cup
                               {[group_id |-> photos[j].group_id,
                                 sender_id |-> photos[j].sender_id, photo_id |-> id]}
    /\ committed' = committed \ {id}
    /\ UNCHANGED <<store, next_uuid, now, req, sent_ok, redeemed_codes,
                   user_devices, fanouts, sms_sent>>

\* today_start: datetime.now() with the time of day set to 0
DayStart(t) == Date(t) * TicksPerDay

\* .eq("group_id", g).gte("created_at", today_start) on photos
PhotosSince(g, t) ==
    {j \in 1..Len(photos) : photos[j].group_id = g /\ photos[j].created_at >= t}

\* return len(response.data) <= 1
IsFirstPhotoToday(count) == count <= 1

\* a background task starts: _is_first_photo_today
NotifyFirst(p) ==
    /\ req[p].pc = "idle"
    /\ \E t \in notify_tasks :
         LET count == Cardinality(PhotosSince(t.group_id, DayStart(now)))
             r == [Idle EXCEPT !.op = "notify", !.group_id = t.group_id,
                               !.user_id = t.sender_id, !.photo_id = t.photo_id,
                               !.at = now, !.n = count]
         IN /\ notify_tasks' = notify_tasks \ {t}
            /\ IF IsFirstPhotoToday(count)
               THEN /\ fanouts' = Append(fanouts,
                                     [group_id |-> t.group_id, sender_id |-> t.sender_id,
                                      photo_id |-> t.photo_id, at |-> now, count |-> count])
                    /\ req' = [req EXCEPT ![p] = [r EXCEPT !.pc = "nf_members"]]
               ELSE /\ req' = [req EXCEPT ![p] = [r EXCEPT !.pc = "done",
                                                            !.detail = "not first"]]
                    /\ UNCHANGED fanouts
    /\ UNCHANGED <<store, next_uuid, now, sent_ok, redeemed_codes,
                   user_devices, committed, sms_sent>>

ActiveMembersWithSender(g, s) == {u \in Users : ActiveRows(g, u) # <<>>}

\* .eq("group_id", g).eq("is_active", True).neq("user_id", s) on group_members
ActiveMembersExcept(g, s) == {u \in Users \ {s} : ActiveRows(g, u) # <<>>}

\* _get_group_details and _get_user_name, then the read of the members in
\* _get_member_device_tokens
NotifyMembers(p) ==
    /\ req[p].pc = "nf_members"
    /\ LET r == req[p]
           members == ActiveMembersExcept(r.group_id, r.user_id)
       IN req' = [req EXCEPT ![p] =
                    IF r.group_id > Len(groups)
                    THEN [r EXCEPT !.pc = "done", !.detail = "no group"]
                    ELSE IF members = {}
                    THEN [r EXCEPT !.pc = "done", !.detail = "no tokens"]
                    ELSE [r EXCEPT !.pc = "nf_devices", !.members = members]]
    /\ UNCHANGED <<store, next_uuid, now, sent_ok, redeemed_codes, push>>

\* except Exception as e: print(...): a store call of send_group_notification
\* raises at the first-photo read; the task ends and nothing is raised
NotifyFirstRaises(p) ==
    /\ req[p].pc = "idle"
    /\ \E t \in notify_tasks :
         /\ notify_tasks' = notify_tasks \ {t}
         /\ req' = [req EXCEPT ![p] =
                      [Idle EXCEPT !.op = "notify", !.group_id = t.group_id,
                                   !.user_id = t.sender_id, !.photo_id = t.photo_id,
                                   !.at = now, !.pc = "done",
                                   !.detail = "Failed to send group notification"]]
    /\ UNCHANGED <<store, next_uuid, now, sent_ok, redeemed_codes,
                   user_devices, fanouts, committed, sms_sent>>

\* ... or at the group, sender, member or device read
NotifyRaises(p) ==
    /\ req[p].op = "notify"
    /\ req[p].pc \in {"nf_members", "nf_devices"}
    /\ req' = [req EXCEPT ![p] =
                 [@ EXCEPT !.pc = "done",
                           !.detail = "Failed to send group notification"]]
    /\ UNCHANGED <<store, next_uuid, now, sent_ok, redeemed_codes, push>>

\* .in_("user_id", member_ids) on user_devices: the rows
DevicesOf(members) == {d \in user_devices : d[1] \in members}

\* the platform each device registers its token with (DeviceRegistration
\* allows "ios" and "android")
PlatformOf(tok) == IF tok = "t1" THEN "ios" ELSE "android"

\* _send_notifications: for device in device_tokens, the notification goes
\* out only if device["platform"] == "ios"
Dispatched(rows) == {d \in rows : PlatformOf(d[2]) = "ios"}

\* the read of the devices, then _send_notifications over the rows
NotifyDevices(p) ==
    /\ req[p].pc = "nf_devices"
    /\ LET r == req[p]
           rows == DevicesOf(r.members)
       IN req' = [req EXCEPT ![p] =
                    IF rows = {}
                    THEN [r EXCEPT !.pc = "done", !.detail = "no tokens"]
                    ELSE [r EXCEPT !.pc = "done", !.detail = "sent", !.result = rows,
                                   !.dispatched = Dispatched(rows)]]
    /\ UNCHANGED <<store, next_uuid, now, sent_ok, redeemed_codes, push>>

\* ------------------------------------------------------------ update_group
\* the membership read, then the name length check (name is a query
\* parameter: no schema validates it)
UpdateGroupBegin(p, u, g, name) ==
    /\ req[p].pc = "idle"
    /\ LET r == [Idle EXCEPT !.op = "update_group", !.user_id = u, !.group_id = g,
                             !.name = name]
       IN req' = [req EXCEPT ![p] =
                    IF ~IsActiveMember(g, u)
                    THEN Respond(r, 403, "Not a member of this group")
                    ELSE IF Len(name) > MaxNameLen
                    THEN Respond(r, 400, "Group name too long")
                    ELSE [r EXCEPT !.pc = "ug_update"]]
    /\ UNCHANGED <<store, next_uuid, now, sent_ok, redeemed_codes, push>>

\* update({name}).eq("id", group_id) on groups
UpdateGroupWrite(p) ==
    /\ req[p].pc = "ug_update"
    /\ LET r == req[p]
       IN \E fails \in BOOLEAN :
            IF fails
            THEN /\ req' = [req EXCEPT ![p] = Respond(r, 500, StoreError(fails))]
                 /\ UNCHANGED groups
            ELSE IF r.group_id > Len(groups)
            THEN /\ req' = [req EXCEPT ![p] = Respond(r, 404, "Group not found")]
                 /\ UNCHANGED groups
            ELSE /\ groups' = [groups EXCEPT ![r.group_id].name = r.name]
                 /\ req' = [req EXCEPT ![p] =
                              Respond([r EXCEPT !.changed = TRUE], 200, "ok")]
    /\ UNCHANGED <<group_members, daily_sends, photos, blobs, invites, sms_outbox,
                   upload_urls, next_uuid, now, sent_ok, redeemed_codes, push>>

\* -------------------------------------------------------- get_daily_status
\* the membership read
GetDailyStatusBegin(p, u, g) ==
    /\ req[p].pc = "idle"
    /\ LET r == [Idle EXCEPT !.op = "get_daily_status", !.user_id = u, !.group_id = g]
       IN req' = [req EXCEPT ![p] =
                    IF ~IsActiveMember(g, u)
                    THEN Respond(r, 403, "Not a member of this group")
                    ELSE [r EXCEPT !.pc = "ds_read"]]
    /\ UNCHANGED <<store, next_uuid, now, sent_ok, redeemed_codes, push>>

\* today is taken and the ledger read: {"has_sent_today": len(data) > 0}
GetDailyStatusRead(p) ==
    /\ req[p].pc = "ds_read"
    /\ LET r == [req[p] EXCEPT !.today = Date(now)]
       IN req' = [req EXCEPT ![p] =
                    Respond([r EXCEPT !.result =
                                 {DailySendRows(r.user_id, r.group_id, r.today) # {}}],
                            200, "ok")]
    /\ UNCHANGED <<store, next_uuid, now, sent_ok, redeemed_codes, push>>

\* ----------------------------------------------------- get_pending_invites
\* the membership read (the handler has no try block)
GetPendingInvitesBegin(p, u, g) ==
    /\ req[p].pc = "idle"
    /\ LET r == [Idle EXCEPT !.op = "get_pending_invites", !.user_id = u,
                             !.group_id = g]
       IN req' = [req EXCEPT ![p] =
                    IF ~IsActiveMember(g, u)
                    THEN Respond(r, 403, "Not a member of this group")
                    ELSE [r EXCEPT !.pc = "pi_read"]]
    /\ UNCHANGED <<store, next_uuid, now, sent_ok, redeemed_codes, push>>

\* .eq("group_id", g).is_("used_at", "null").gte("expires_at", now) on invites
GetPendingInvitesRead(p) ==
    /\ req[p].pc = "pi_read"
    /\ LET r == req[p]
       IN req' = [req EXCEPT ![p] =
                    Respond([r EXCEPT !.at = now, !.result =
                                 {j \in 1..Len(invites) :
                                     /\ invites[j].group_id = r.group_id
                                     /\ InviteIsLive(invites[j], now)}],
                            200, "ok")]
    /\ UNCHANGED <<store, next_uuid, now, sent_ok, redeemed_codes, push>>

\* --------------------------------------------------------------- get_groups
\* .eq("user_id", u).eq("is_active", True) on group_members, joined with
\* groups: the ids of the groups listed (the reads that follow fill in the
\* members, has_sent_today and the last photo of each)
GetGroups(p, u) ==
    /\ req[p].pc = "idle"
    /\ LET r == [Idle EXCEPT !.op = "get_groups", !.user_id = u]
           listed == {g \in 1..Len(groups) : ActiveRows(g, u) # <<>>}
       IN req' = [req EXCEPT ![p] =
                    IF listed = {}
                    THEN Respond([r EXCEPT !.result = listed], 200, "ok")
                    ELSE [r EXCEPT !.result = listed, !.pc = "gg_photo"]]
    /\ UNCHANGED <<store, next_uuid, now, sent_ok, redeemed_codes, push>>

\* .eq("group_id", g).order("created_at", desc=True).limit(1) on photos: the
\* ids the read may return (one of the newest rows; none for no row)
LastPhotoResponse(g) ==
    LET rows == {j \in 1..Len(photos) : photos[j].group_id = g}
    IN IF rows = {} THEN {0}
       ELSE {photos[j].id : j \in {k \in rows :
                \A m \in rows : photos[m].created_at <= photos[k].created_at}}

\* for item in response.data: the last photo of the next group listed (the
\* reads of its members and of today's send go with it); after the last
\* group the list is returned
GetGroupsLastPhoto(p) ==
    /\ req[p].pc = "gg_photo"
    /\ LET r == req[p]
           todo == {g \in r.result : \A x \in r.last_photo : x[1] # g}
           g == CHOOSE x \in todo : \A y \in todo : x <= y
       IN \E id \in LastPhotoResponse(g) :
            LET r2 == [r EXCEPT !.last_photo = @ \cup {<<g, id>>}, !.at = now]
            IN req' = [req EXCEPT ![p] =
                         IF todo = {g} THEN Respond(r2, 200, "ok") ELSE r2]
    /\ UNCHANGED <<store, next_uuid, now, sent_ok, redeemed_codes, push>>

\* ---------------------------------------------------------- specifications
OneName == <<"F", "a", "m">>

\* groups and the cap: one user creates groups (in concurrent requests) and leaves them
NextGroups ==
    \/ \E p \in Procs : CreateGroupBegin(p, "u1", OneName)
    \/ \E p \in Procs : CreateGroupLimit(p)
    \/ \E p \in Procs : CreateGroupInsertGroup(p, MaxGroups)
    \/ \E p \in Procs : CreateGroupInsertMember(p)
    \/ \E p \in Procs, g \in 1..Len(groups) : LeaveGroup(p, "u1", g)
    \/ \E p \in Procs : Return(p)

SpecGroups == Init /\ [][NextGroups]_vars

\* invites: u1 creates the group; each user has one request in flight and may
\* invite, add the other user, redeem a code, and leave
UserOf(p) == IF p = 1 THEN "u1" ELSE "u2"

NextInvites ==
    \/ CreateGroupBegin(1, "u1", OneName)
    \/ \E p \in Procs : CreateGroupLimit(p)
    \/ \E p \in Procs : CreateGroupInsertGroup(p, MaxInviteGroups)
    \/ \E p \in Procs : CreateGroupInsertMember(p)
    \/ \E p \in Procs, g \in 1..Len(groups) : LeaveGroup(p, UserOf(p), g)
    \/ \E p \in Procs, g \in 1..Len(groups), ph \in Phones :
          SendInvitesBegin(p, UserOf(p), g, <<ph>>, <<>>)
    \/ \E p \in Procs, g \in 1..Len(groups), x \in Users :
          SendInvitesBegin(p, UserOf(p), g, <<>>, <<x>>)
    \/ \E p \in Procs : SendInvitesRecent(p)
    \/ \E p \in Procs : SendInvitesInsert(p, MaxInvites)
    \/ \E p \in Procs : SendInvitesMember(p)
    \/ \E p \in Procs : SendInvitesAdd(p)
    \/ \E p \in Procs, code \in TypedCodes : RedeemBegin(p, UserOf(p), code)
    \/ \E p \in Procs : RedeemMember(p)
    \/ \E p \in Procs : RedeemWrite(p)
    \/ \E p \in Procs : RedeemMark(p)
    \/ \E p \in Procs : Return(p)

SpecInvites == Init /\ [][NextInvites]_vars

\* photos: u1 creates the group, uploads (in concurrent requests), leaves; days pass
NextPhotos ==
    \/ \E p \in Procs : CreateGroupBegin(p, "u1", OneName)
    \/ \E p \in Procs : CreateGroupLimit(p)
    \/ \E p \in Procs : CreateGroupInsertGroup(p, MaxPhotoGroups)
    \/ \E p \in Procs : CreateGroupInsertMember(p)
    \/ \E p \in Procs, g \in 1..Len(groups) : LeaveGroup(p, "u1", g)
    \/ \E p \in Procs, g \in 1..Len(groups), file \in Files : UploadBegin(p, "u1", g, file)
    \/ \E p \in Procs : UploadDaily(p, MaxPhotos)
    \/ \E p \in Procs : UploadBlob(p)
    \/ \E p \in Procs : UploadPhotoRow(p, MaxPhotos)
    \/ \E p \in Procs : UploadMark(p)
    \/ \E p \in Procs, g \in 1..Len(groups) : GetUploadUrl(p, "u1", g, MaxPhotos)
    \/ \E p \in Procs, g \in 1..Len(groups), id \in 1..next_uuid :
          ConfirmUploadBegin(p, "u1", g, id, MaxPhotos)
    \/ \E p \in Procs : ConfirmUploadMark(p)
    \/ Tick(MaxNow)
    \/ \E p \in Procs : Return(p)

SpecPhotos == Init /\ [][NextPhotos]_vars

\* viewing: u1 creates the group and uploads; the photos are listed while the
\* clock runs up to and past their expiry
NextViewing ==
    \/ \E p \in Procs : CreateGroupBegin(p, "u1", OneName)
    \/ \E p \in Procs : CreateGroupLimit(p)
    \/ \E p \in Procs : CreateGroupInsertGroup(p, MaxPhotoGroups)
    \/ \E p \in Procs : CreateGroupInsertMember(p)
    \/ \E p \in Procs, g \in 1..Len(groups), file \in GoodFiles :
          UploadBegin(p, "u1", g, file)
    \/ \E p \in Procs : UploadDaily(p, MaxViewPhotos)
    \/ \E p \in Procs : UploadBlob(p)
    \/ \E p \in Procs : UploadPhotoRow(p, MaxViewPhotos)
    \/ \E p \in Procs : UploadMark(p)
    \/ \E p \in Procs, g \in 1..Len(groups) : GetTodaysPhotosBegin(p, "u1", g)
    \/ \E p \in Procs : GetTodaysPhotosRead(p)
    \/ \E p \in Procs : GetGroups(p, "u1")
    \/ \E p \in Procs : GetGroupsLastPhoto(p)
    \/ Tick(MaxViewNow)
    \/ \E p \in Procs : Return(p)

SpecViewing == Init /\ [][NextViewing]_vars

\* notifications: u1 creates the group and submits photos (upload_photo, or
\* get_upload_url and confirm_upload) over two days; the notification of each
\* committed photo is scheduled and runs in the background
NextNotify ==
    \/ CreateGroupBegin(1, "u1", OneName)
    \/ \E p \in Procs : CreateGroupLimit(p)
    \/ \E p \in Procs : CreateGroupInsertGroup(p, MaxPhotoGroups)
    \/ \E p \in Procs : CreateGroupInsertMember(p)
    \/ \E p \in Procs, g \in 1..Len(groups), file \in GoodFiles :
          UploadBegin(p, "u1", g, file)
    \/ \E p \in Procs : UploadDaily(p, MaxNotifyPhotos)
    \/ \E p \in Procs : UploadBlob(p)
    \/ \E p \in Procs : UploadPhotoRow(p, MaxNotifyPhotos)
    \/ \E p \in Procs : UploadMark(p)
    \/ \E p \in Procs, g \in 1..Len(groups) : GetUploadUrl(p, "u1", g, MaxNotifyPhotos)
    \/ \E p \in Procs, g \in 1..Len(groups), id \in 1..next_uuid :
          ConfirmUploadBegin(p, "u1", g, id, MaxNotifyPhotos)
    \/ \E p \in Procs : ConfirmUploadMark(p)
    \/ \E id \in committed : OnPhotoCommitted(id)
    \/ \E p \in Procs : NotifyFirst(p)
    \/ \E p \in Procs : NotifyMembers(p)
    \/ Tick(MaxNow)
    \/ \E p \in Procs : Return(p)

SpecNotify == Init /\ [][NextNotify]_vars

\* fan-out: u1 creates the group and adds u2; users register and unregister
\* devices and leave; notifications are scheduled for either user as sender
NextFanout ==
    \/ CreateGroupBegin(1, "u1", OneName)
    \/ \E p \in Procs : CreateGroupLimit(p)
    \/ \E p \in Procs : CreateGroupInsertGroup(p, MaxPhotoGroups)
    \/ \E p \in Procs : CreateGroupInsertMember(p)
    \/ \E g \in 1..Len(groups) : SendInvitesBegin(1, "u1", g, <<>>, <<"u2">>)
    \/ \E p \in Procs : SendInvitesRecent(p)
    \/ \E p \in Procs : SendInvitesMember(p)
    \/ \E p \in Procs : SendInvitesAdd(p)
    \/ \E p \in Procs, g \in 1..Len(groups) : LeaveGroup(p, UserOf(p), g)
    \/ \E p \in Procs, tok \in DeviceTokens : RegisterDevice(p, UserOf(p), tok)
    \/ \E p \in Procs, tok \in DeviceTokens : UnregisterDevice(p, UserOf(p), tok)
    \/ \E g \in 1..Len(groups), s \in Users : ScheduleGroupNotification(g, s, MaxFanouts)
    \/ \E p \in Procs : NotifyFirst(p)
    \/ \E p \in Procs : NotifyMembers(p)
    \/ \E p \in Procs : NotifyDevices(p)
    \/ \E p \in Procs : Return(p)

SpecFanout == Init /\ [][NextFanout]_vars

\* the ledger: u1 creates the group, submits photos (upload_photo, or
\* get_upload_url and confirm_upload) and marks the day as sent, in concurrent
\* requests, over two days
NextLedger ==
    \/ CreateGroupBegin(1, "u1", OneName)
    \/ \E p \in Procs : CreateGroupLimit(p)
    \/ \E p \in Procs : CreateGroupInsertGroup(p, MaxPhotoGroups)
    \/ \E p \in Procs : CreateGroupInsertMember(p)
    \/ \E p \in Procs, g \in 1..Len(groups), file \in GoodFiles :
          UploadBegin(p, "u1", g, file)
    \/ \E p \in Procs : UploadDaily(p, MaxPhotos)
    \/ \E p \in Procs : UploadBlob(p)
    \/ \E p \in Procs : UploadPhotoRow(p, MaxPhotos)
    \/ \E p \in Procs : UploadMark(p)
    \/ \E p \in Procs, g \in 1..Len(groups) : GetUploadUrl(p, "u1", g, MaxPhotos)
    \/ \E p \in Procs, g \in 1..Len(groups), id \in 1..next_uuid :
          ConfirmUploadBegin(p, "u1", g, id, MaxPhotos)
    \/ \E p \in Procs : ConfirmUploadMark(p)
    \/ \E p \in Procs, g \in 1..Len(groups) : MarkSentBegin(p, "u1", g)
    \/ \E p \in Procs : MarkSentUpsert(p)
    \/ Tick(MaxNow)
    \/ \E p \in Procs : Return(p)

SpecLedger == Init /\ [][NextLedger]_vars

\* membership gate: u1 creates the group, invites a phone, leaves, comes back
\* by redeeming the code, and calls every endpoint of the group meanwhile
GateCodes == {<<"7", "K", "9", "X", "Q", "2">>, <<"9", "9", "9", "9", "9", "9">>}

GateNames == {OneName, <<" ">>}

\* a name of 51 characters
LongName == [j \in 1..(MaxNameLen + 1) |-> "x"]

\* the values of the query parameter `name` of update_group
RenameNames == {OneName, <<>>, <<" ", "F">>, LongName}

NextGate ==
    \/ \E name \in GateNames : CreateGroupBegin(1, "u1", name)
    \/ \E p \in Procs : CreateGroupLimit(p)
    \/ \E p \in Procs : CreateGroupInsertGroup(p, MaxInviteGroups)
    \/ \E p \in Procs : CreateGroupInsertMember(p)
    \/ \E p \in Procs, g \in 1..Len(groups) : LeaveGroup(p, "u1", g)
    \/ \E g \in 1..Len(groups), name \in RenameNames : UpdateGroupBegin(2, "u1", g, name)
    \/ \E p \in Procs : UpdateGroupWrite(p)
    \/ \E g \in 1..Len(groups) : GetDailyStatusBegin(2, "u1", g)
    \/ \E p \in Procs : GetDailyStatusRead(p)
    \/ \E g \in 1..Len(groups) : MarkSentBegin(2, "u1", g)
    \/ \E p \in Procs : MarkSentUpsert(p)
    \/ \E g \in 1..Len(groups), file \in Files : UploadBegin(2, "u1", g, file)
    \/ \E p \in Procs : UploadDaily(p, MaxViewPhotos)
    \/ \E p \in Procs : UploadBlob(p)
    \/ \E p \in Procs : UploadPhotoRow(p, MaxViewPhotos)
    \/ \E p \in Procs : UploadMark(p)
    \/ \E g \in 1..Len(groups) : GetTodaysPhotosBegin(2, "u1", g)
    \/ \E p \in Procs : GetTodaysPhotosRead(p)
    \/ \E g \in 1..Len(groups) :
          SendInvitesBegin(2, "u1", g, <<"+14155550100">>, <<>>)
    \/ \E p \in Procs : SendInvitesRecent(p)
    \/ \E p \in Procs : SendInvitesInsert(p, MaxGateInvites)
    \/ \E p \in Procs : SendInvitesMember(p)
    \/ \E g \in 1..Len(groups) : GetPendingInvitesBegin(2, "u1", g)
    \/ \E p \in Procs : GetPendingInvitesRead(p)
    \/ GetGroups(2, "u1")
    \/ \E p \in Procs : GetGroupsLastPhoto(p)
    \/ \E code \in GateCodes : RedeemBegin(1, "u1", code)
    \/ \E p \in Procs : RedeemMember(p)
    \/ \E p \in Procs : RedeemWrite(p)
    \/ \E p \in Procs : RedeemMark(p)
    \/ \E p \in Procs : Return(p)

SpecGate == Init /\ [][NextGate]_vars

\* expiry of an invite: u1 creates the group and invites a phone; u2 redeems
\* the code while the clock runs up to and past the invite's expiry
MaxExpiryNow == InviteTtl + 1

NextExpiry ==
    \/ CreateGroupBegin(1, "u1", OneName)
    \/ \E p \in Procs : CreateGroupLimit(p)
    \/ \E p \in Procs : CreateGroupInsertGroup(p, MaxInviteGroups)
    \/ \E p \in Procs : CreateGroupInsertMember(p)
    \/ \E g \in 1..Len(groups) : SendInvitesBegin(1, "u1", g, <<"+14155550100">>, <<>>)
    \/ \E p \in Procs : SendInvitesRecent(p)
    \/ \E p \in Procs : SendInvitesInsert(p, MaxGateInvites)
    \/ \E p \in Procs : SendInvitesMember(p)
    \/ \E code \in GenCodes : RedeemBegin(2, "u2", code)
    \/ \E p \in Procs : RedeemMember(p)
    \/ \E p \in Procs : RedeemWrite(p)
    \/ \E p \in Procs : RedeemMark(p)
    \/ Tick(MaxExpiryNow)
    \/ \E p \in Procs : Return(p)

SpecExpiry == Init /\ [][NextExpiry]_vars

\* the life of a photo: u1 creates the group and uploads on several days
\* while the photos are listed and the clock runs past their expiry
NextTerminal ==
    \/ CreateGroupBegin(1, "u1", OneName)
    \/ \E p \in Procs : CreateGroupLimit(p)
    \/ \E p \in Procs : CreateGroupInsertGroup(p, MaxPhotoGroups)
    \/ \E p \in Procs : CreateGroupInsertMember(p)
    \/ \E p \in Procs, g \in 1..Len(groups), file \in GoodFiles :
          UploadBegin(p, "u1", g, file)
    \/ \E p \in Procs : UploadDaily(p, MaxTerminalPhotos)
    \/ \E p \in Procs : UploadBlob(p)
    \/ \E p \in Procs : UploadPhotoRow(p, MaxTerminalPhotos)
    \/ \E p \in Procs : UploadMark(p)
    \/ \E p \in Procs, g \in 1..Len(groups) : GetTodaysPhotosBegin(p, "u1", g)
    \/ \E p \in Procs : GetTodaysPhotosRead(p)
    \/ Tick(MaxTerminalNow)
    \/ \E p \in Procs : Return(p)

SpecTerminal == Init /\ [][NextTerminal]_vars

\* side tasks: u1 creates the group, invites a phone and adds u2; the SMS
\* tasks and the notifications scheduled for the group run in the background
\* and may fail
NextSideTasks ==
    \/ CreateGroupBegin(1, "u1", OneName)
    \/ \E p \in Procs : CreateGroupLimit(p)
    \/ \E p \in Procs : CreateGroupInsertGroup(p, MaxInviteGroups)
    \/ \E p \in Procs : CreateGroupInsertMember(p)
    \/ \E g \in 1..Len(groups), ph \in Phones :
          SendInvitesBegin(1, "u1", g, <<ph>>, <<"u2">>)
    \/ \E p \in Procs : SendInvitesRecent(p)
    \/ \E p \in Procs : SendInvitesInsert(p, MaxInvites)
    \/ \E p \in Procs : SendInvitesMember(p)
    \/ \E p \in Procs : SendInvitesAdd(p)
    \/ \E task \in sms_outbox : SendInviteSmsTask(task)
    \/ \E tok \in DeviceTokens : RegisterDevice(2, "u2", tok)
    \/ \E g \in 1..Len(groups) : ScheduleGroupNotification(g, "u1", MaxFanouts)
    \/ \E p \in Procs : NotifyFirst(p)
    \/ \E p \in Procs : NotifyFirstRaises(p)
    \/ \E p \in Procs : NotifyMembers(p)
    \/ \E p \in Procs : NotifyDevices(p)
    \/ \E p \in Procs : NotifyRaises(p)
    \/ \E p \in Procs : Return(p)

SpecSideTasks == Init /\ [][NextSideTasks]_vars

\* leaving and coming back: u1 creates the group, invites a phone, uploads,
\* leaves, redeems the code and uploads again, on one day and on the next
NextRejoin ==
    \/ CreateGroupBegin(1, "u1", OneName)
    \/ \E p \in Procs : CreateGroupLimit(p)
    \/ \E p \in Procs : CreateGroupInsertGroup(p, MaxInviteGroups)
    \/ \E p \in Procs : CreateGroupInsertMember(p)
    \/ \E g \in 1..Len(groups) : SendInvitesBegin(1, "u1", g, <<"+14155550100">>, <<>>)
    \/ \E p \in Procs : SendInvitesRecent(p)
    \/ \E p \in Procs : SendInvitesInsert(p, MaxGateInvites)
    \/ \E p \in Procs : SendInvitesMember(p)
    \/ \E g \in 1..Len(groups) : LeaveGroup(1, "u1", g)
    \/ \E code \in GenCodes : RedeemBegin(1, "u1", code)
    \/ \E p \in Procs : RedeemMember(p)
    \/ \E p \in Procs : RedeemWrite(p)
    \/ \E p \in Procs : RedeemMark(p)
    \/ \E g \in 1..Len(groups), file \in GoodFiles : UploadBegin(2, "u1", g, file)
    \/ \E p \in Procs : UploadDaily(p, MaxPhotos)
    \/ \E p \in Procs : UploadBlob(p)
    \/ \E p \in Procs : UploadPhotoRow(p, MaxPhotos)
    \/ \E p \in Procs : UploadMark(p)
    \/ Tick(MaxNow)
    \/ \E p \in Procs : Return(p)

SpecRejoin == Init /\ [][NextRejoin]_vars

\* ------------------------------------------------------------------ claims
Dates == 0..Date(MaxNow)

AlreadySentDetail == "Already sent photo to this group today"

\* an upload_photo request that drew its photo id (it passed the daily-limit
\* read and the file checks) and ended, the store having been reachable
RacedUpload(p) ==
    /\ req[p].op = "upload_photo"
    /\ req[p].pc = "done"
    /\ req[p].photo_id # 0
    /\ req[p].detail \notin {"store error", "Upload failed", "Failed to create photo record"}

\* C1: when two upload_photo requests for one (user, group, day) run
\* concurrently, exactly one Photo row and exactly one daily_sends row are
\* committed for the triple, one request succeeds and the other is answered
\* 400 "Already sent photo to this group today".
C1_ConcurrentUploads ==
    \A p, q \in Procs :
        (/\ p # q
         /\ RacedUpload(p) /\ RacedUpload(q)
         /\ req[p].user_id = req[q].user_id
         /\ req[p].group_id = req[q].group_id
         /\ req[p].today = req[q].today
         /\ req[p].status = 200)
        => /\ Cardinality(PhotosOf(req[p].user_id, req[p].group_id, req[p].today)) = 1
           /\ Cardinality(DailySendRows(req[p].user_id, req[p].group_id, req[p].today)) = 1
           /\ req[q].status = 400
           /\ req[q].detail = AlreadySentDetail

\* C2 as stated: every upload_photo that arrives after the user's upload to
\* the group succeeded on that day ends with 400 AlreadySent and creates nothing.
C2_LaterUploadAlreadySent ==
    \A p \in Procs :
        (req[p].op = "upload_photo" /\ req[p].pc = "done" /\ req[p].after_ok)
        => /\ req[p].status = 400
           /\ req[p].detail = AlreadySentDetail
           /\ req[p].photo_id = 0

\* C2 (amended): after the user's upload_photo to the group succeeded on day D,
\* an upload_photo of the same user to the same group on day D is answered 403
\* when the user is no active member any more and 400 AlreadySent when the
\* daily limit is read; neither step writes to the store or draws a photo id.
C2_LaterUploadRejected ==
    [][\A p \in Procs :
        LET r == req[p]
            r2 == req'[p]
        IN /\ (r.pc = "idle" /\ r2.op = "upload_photo")
                => store' = store /\ next_uuid' = next_uuid
           /\ (/\ r.pc = "idle" /\ r2.op = "upload_photo"
               /\ <<r2.user_id, r2.group_id, Date(now)>> \in sent_ok
               /\ ~IsActiveMember(r2.group_id, r2.user_id))
                => r2.pc = "done" /\ r2.status = 403
           /\ (/\ r.pc = "up_daily" /\ r2.pc # "up_daily"
               /\ <<r.user_id, r.group_id, Date(now)>> \in sent_ok)
                => /\ r2.pc = "done" /\ r2.status = 400 /\ r2.detail = AlreadySentDetail
                   /\ store' = store /\ next_uuid' = next_uuid
    ]_vars

\* a second upload on the day of a successful one was answered AlreadySent
C2_Witness ==
    \E p \in Procs :
        /\ req[p].op = "upload_photo" /\ req[p].pc = "done" /\ req[p].after_ok
        /\ req[p].status = 400 /\ req[p].detail = AlreadySentDetail

\* C3: at most one Photo row per (sender, group, calendar day).
C3_OnePhotoPerSenderGroupDay ==
    \A u \in Users, g \in GroupIds, d \in Dates : Cardinality(PhotosOf(u, g, d)) <= 1

\* C4: a create_group of a user who has 5 or more active memberships when the
\* limit is read is answered 400 "Maximum 5 groups allowed" and writes neither
\* a group nor a membership.
C4_SixthGroupRefused ==
    [][\A p \in Procs :
        (/\ req[p].pc = "cg_limit" /\ req'[p].pc # "cg_limit"
         /\ ActiveMembershipCount(req[p].user_id) >= MaxGroupsPerUser)
        => /\ req'[p].pc = "done"
           /\ req'[p].status = 400
           /\ req'[p].detail = "Maximum 5 groups allowed"
           /\ req'[p].group_id = 0
           /\ groups' = groups
           /\ group_members' = group_members
    ]_vars

\* a create_group was refused while its user had 5 active memberships
C4_Witness ==
    \E p \in Procs :
        /\ req[p].op = "create_group" /\ req[p].pc = "done" /\ req[p].status = 400
        /\ ActiveMembershipCount(req[p].user_id) = MaxGroupsPerUser
        /\ Len(groups) = MaxGroupsPerUser

\* C5: no user ever has more than 5 active memberships.
C5_AtMostFiveActiveMemberships ==
    \A u \in Users : ActiveMembershipCount(u) <= MaxGroupsPerUser

LiveIgnoringCase(code, t) ==
    {j \in 1..Len(invites) : /\ Upper(invites[j].code) = Upper(code)
                             /\ invites[j].expires_at >= t
                             /\ invites[j].used_at = Null}

C9_RedeemAllOrNothing ==
    \A p \in Procs :
        (req[p].op = "redeem_invite" /\ req[p].pc = "done")
        => (req[p].changed <=> /\ req[p].invite # 0
                               /\ invites[req[p].invite].used_at # Null
                               /\ invites[req[p].invite].used_by = req[p].user_id)

\* C10: for a valid invite, redeem_invite reactivates an inactive row of the
\* caller in the target group (no new row), inserts one active row when there
\* is none, and with an active row answers 400 "Already a member of this
\* group" without writing to the store.
C10_RedeemMembershipByCase ==
    [][\A p \in Procs :
        LET r == req[p]
            r2 == req'[p]
            rows == MemberRows(r.group_id, r.user_id)
            rows2 == group_members'[<<r.group_id, r.user_id>>]
        IN /\ (r.pc = "ri_member" /\ r2.pc # "ri_member")
                => IF rows # <<>> /\ rows[1]
                   THEN /\ r2.pc = "done" /\ r2.status = 400
                        /\ r2.detail = "Already a member of this group"
                        /\ store' = store
                   ELSE /\ r2.pc = "ri_write"
                        /\ r2.row_case = (IF rows = <<>> THEN "none" ELSE "inactive")
                        /\ store' = store
           /\ (r.pc = "ri_write" /\ r2.pc = "ri_mark")
                => /\ r.row_case = "inactive"
                        => Len(rows2) = Len(rows) /\ \A j \in 1..Len(rows2) : rows2[j]
                   /\ r.row_case = "none" => rows2 = Append(rows, TRUE)
    ]_vars

\* an inactive membership was reactivated by a redeem_invite
C10_Witness ==
    \E p \in Procs :
        /\ req[p].op = "redeem_invite" /\ req[p].pc = "ri_mark"
        /\ req[p].row_case = "inactive"
        /\ MemberRows(req[p].group_id, req[p].user_id) = <<TRUE>>

\* C11: get_todays_photos never returns a photo whose expires_at is less than
\* or equal to the time the request took as now (the boundary expires_at = now
\* included).
C11_NoExpiredPhotoListed ==
    \A p \in Procs :
        (req[p].op = "get_todays_photos" /\ req[p].pc = "done" /\ req[p].status = 200)
        => \A j \in 1..Len(photos) :
              photos[j].id \in req[p].result => photos[j].expires_at > req[p].at

\* the evaluations of group g that passed the first-photo check on day d
FanoutsOn(g, d) ==
    {k \in 1..Len(fanouts) : fanouts[k].group_id = g /\ Date(fanouts[k].at) = d}

PhotosOnDayOf(id) ==
    {k \in 1..Len(photos) :
        \E j \in 1..Len(photos) : /\ photos[j].id = id
                                   /\ photos[k].group_id = photos[j].group_id
                                   /\ Date(photos[k].created_at) = Date(photos[j].created_at)}

\* C13: the first-photo check proceeds to fan-out if and only if the number of
\* photos of the group created on the calendar date of the submission, the
\* committed photo included, is exactly 1.
C13_ProceedsIffCountIsOne ==
    [][\A p \in Procs :
        (req[p].pc = "idle" /\ req'[p].op = "notify")
        => ((fanouts' # fanouts)
              <=> Cardinality(PhotosOnDayOf(req'[p].photo_id)) = 1)
    ]_vars

\* the user_devices rows of the users that are active members of g and not s
RecipientDevicesNow(g, s) ==
    {d \in user_devices : d[1] # s /\ IsActiveMember(g, d[1])}

\* C14 as stated: the device tokens a fan-out resolves are exactly the
\* registered tokens of the users that are, at that moment, active members of
\* the group and not the sender.
C14_TokensOfActiveMembersNow ==
    [][\A p \in Procs :
        (req[p].pc = "nf_devices" /\ req'[p].pc = "done")
        => req'[p].result = RecipientDevicesNow(req[p].group_id, req[p].user_id)
    ]_vars

\* C14 (amended): the recipients are the users that are active members of the
\* group and not the sender when the members are read; the tokens resolved are
\* exactly the tokens registered by these recipients when the devices are read,
\* so that no registration of the sender or of a user who was inactive or no
\* member at the read of the members is among them.
C14_TokensOfRecipientsRead ==
    [][\A p \in Procs :
        LET r == req[p]
            r2 == req'[p]
            active == {u \in Users : u # r.user_id /\ IsActiveMember(r.group_id, u)}
        IN /\ (r.pc = "nf_members" /\ r2.pc = "nf_devices")
                => r2.members = active /\ active # {}
           /\ (r.pc = "nf_members" /\ r2.pc = "done")
                => r2.result = {} /\ (active = {} \/ r.group_id > Len(groups))
           /\ (r.pc = "nf_devices" /\ r2.pc = "done")
                => /\ r2.result = {d \in user_devices : d[1] \in r.members}
                   /\ \A d \in r2.result : d[1] # r.user_id
    ]_vars

\* a fan-out resolved the token of a recipient while the sender has a
\* registered device too
C14_Witness ==
    \E p \in Procs :
        /\ req[p].op = "notify" /\ req[p].pc = "done" /\ req[p].detail = "sent"
        /\ req[p].result # {}
        /\ \E d \in user_devices : d[1] = req[p].user_id

\* C15: every upload_photo that commits and returns 200 is followed by one
\* evaluation of the notification trigger for its group and sender.  A handler
\* hands a background task over before it returns, so that when the 200 is
\* out the evaluation for the photo is scheduled, running or done.
C15_UploadSchedulesTrigger ==
    \A p \in Procs :
        (req[p].op = "upload_photo" /\ req[p].pc = "done" /\ req[p].status = 200)
        => \/ req[p].photo_id \notin committed
           \/ \E t \in notify_tasks :
                 t.group_id = req[p].group_id /\ t.sender_id = req[p].user_id
           \/ \E q \in Procs :
                 /\ req[q].op = "notify"
                 /\ req[q].group_id = req[p].group_id /\ req[q].user_id = req[p].user_id

\* the request in slot p is at its write to daily_sends, for a (user, group,
\* day) that has a row
LedgerWriteOnExisting(p) ==
    LET r == req[p]
    IN \/ r.pc = "up_mark" /\ DailySendRows(r.user_id, r.group_id, r.today) # {}
       \/ /\ r.pc \in {"cu_mark", "ms_upsert"}
          /\ DailySendRows(r.user_id, r.group_id, Date(now)) # {}

\* C16: a write to the ledger (mark_sent_today, and the daily_sends write of
\* upload_photo and of confirm_upload) for a (user, group, day) that has a
\* record fails, and never succeeds silently on the existing record.
C16_MarkSentConflicts ==
    [][\A p \in Procs :
        (LedgerWriteOnExisting(p) /\ req'[p].pc = "done")
        => req'[p].status >= 400 /\ daily_sends' = daily_sends
    ]_vars

\* no two rows of the ledger have the same (user, group, date)
LedgerUnique(rows) ==
    \A j, k \in 1..Len(rows) :
        (/\ rows[j].user_id = rows[k].user_id
         /\ rows[j].group_id = rows[k].group_id
         /\ rows[j].sent_date = rows[k].sent_date) => j = k

C18_LedgerRowHasPhoto ==
    \A j \in 1..Len(daily_sends) :
        PhotosOf(daily_sends[j].user_id, daily_sends[j].group_id,
                 daily_sends[j].sent_date) # {}

\* the Photo row with this id is in the table
PhotoRowIn(rows, id) == \E j \in 1..Len(rows) : rows[j].id = id

\* C19: when the daily_sends insert of an upload_photo is refused because the
\* record is there, the Photo row and the blob the request created are
\* deleted and the caller is answered 400 "Already sent photo to this group
\* today".
C19_LostRaceRolledBack ==
    [][\A p \in Procs :
        LET r == req[p]
            r2 == req'[p]
        IN (/\ r.pc = "up_mark" /\ r2.pc = "done"
            /\ DailySendInsertConflicts(r.user_id, r.group_id, r.today)
            /\ r2.detail # "store error")
           => /\ r2.status = 400 /\ r2.detail = AlreadySentDetail
              /\ ~PhotoRowIn(photos', r.photo_id)
              /\ StoragePath(r.group_id, r.user_id, r.photo_id) \notin blobs'
    ]_vars

\* C20: when upload_photo returns an error after its blob was stored (at the
\* photo insert or at the ledger insert), neither the blob nor the Photo row
\* the request created remains.
C20_NoOrphanAfterError ==
    [][\A p \in Procs :
        LET r == req[p]
            r2 == req'[p]
        IN (/\ r.pc \in {"up_photo", "up_mark"}
            /\ r2.pc = "done" /\ r2.status >= 400)
           => /\ StoragePath(r.group_id, r.user_id, r.photo_id) \notin blobs'
              /\ r.pc = "up_mark" => ~PhotoRowIn(photos', r.photo_id)
    ]_vars

\* C21: leave_group for a (user, group) with a membership row sets the row
\* inactive and answers 200; for a pair with no membership row it answers 404
\* and changes no membership (a failed store call aside).
C21_LeaveAnswersByRow ==
    [][\A p \in Procs :
        LET r == req[p]
            r2 == req'[p]
        IN (/\ r.pc = "idle" /\ r2.op = "leave_group"
            /\ r2.detail # "store error")
           => IF MemberRows(r2.group_id, r2.user_id) = <<>>
              THEN r2.status = 404 /\ group_members' = group_members
              ELSE /\ r2.status = 200
                   /\ group_members'[<<r2.group_id, r2.user_id>>] = <<FALSE>>
    ]_vars

\* C22: a leave_group of a user whose membership row in the group is inactive
\* (the user left and did not rejoin) is answered 404.
C22_SecondLeaveNotFound ==
    [][\A p \in Procs :
        LET r == req[p]
            r2 == req'[p]
        IN (/\ r.pc = "idle" /\ r2.op = "leave_group"
            /\ r2.detail # "store error"
            /\ MemberRows(r2.group_id, r2.user_id) # <<>>
            /\ ActiveRows(r2.group_id, r2.user_id) = <<>>)
           => r2.status = 404
    ]_vars

\* C23: every group whose create_group request is no longer between its two
\* inserts has a membership row of its creator: create_group leaves either
\* the group together with the creator's membership, or neither.
C23_GroupHasCreatorRow ==
    \A g \in 1..Len(groups) :
        \/ MemberRows(g, groups[g].created_by) # <<>>
        \/ \E p \in Procs : /\ req[p].op = "create_group"
                            /\ req[p].pc = "cg_member"
                            /\ req[p].group_id = g

\* the answers that stand for Forbidden, InvalidInput, LimitExceeded,
\* TooLarge, UnsupportedType, AlreadySent, AlreadyMember and NotFound
RuleErrorStatuses == {400, 403, 404, 413, 415, 422}

\* the request has made a write of its own
HasWritten(r) ==
    \/ r.pc \in {"cg_member", "ri_mark", "up_photo", "up_mark", "cu_mark"}
    \/ r.issued > 0
    \/ r.added > 0
    \/ r.changed

\* C24: a request that is answered with a validation, authorization or
\* business-rule error (400, 403, 404, 413, 415, 422) has written nothing:
\* neither the step that answers nor any earlier step of the request changes
\* groups, group_members, photos, blobs, daily_sends or invites.
C24_RuleErrorWritesNothing ==
    [][\A p \in Procs :
        LET r == req[p]
            r2 == req'[p]
        IN (/\ r.pc # "done" /\ r2.pc = "done"
            /\ r2.status \in RuleErrorStatuses)
           => /\ <<groups, group_members, photos, blobs, daily_sends, invites>>' =
                 <<groups, group_members, photos, blobs, daily_sends, invites>>
              /\ ~HasWritten(r)
    ]_vars

C24_Witness ==
    \E p \in Procs :
        /\ req[p].pc = "done"
        /\ req[p].op = "redeem_invite"
        /\ req[p].status = 400
        /\ req[p].detail = "Already a member of this group"
        /\ \E q \in Procs : req[q].op = "upload_photo" /\ req[q].status = 413

\* the operations that read the caller's active membership first
GatedOps ==
    {"update_group", "get_daily_status", "mark_sent_today", "upload_photo",
     "get_todays_photos", "send_invites", "get_pending_invites"}

\* u left g and has not been reactivated: the membership row is inactive
HasLeft(g, u) == MemberRows(g, u) # <<>> /\ ActiveRows(g, u) = <<>>

\* C29: while a user's membership row of a group is inactive (from the
\* successful leave_group until a redeem_invite reactivates it), every
\* membership-gated request of that user for that group that arrives is
\* answered 403, and a get_groups of that user does not list the group.
C29_LeftUserIsRefused ==
    [][\A p \in Procs :
        LET r == req[p]
            r2 == req'[p]
        IN r.pc = "idle" =>
             /\ (r2.op \in GatedOps /\ HasLeft(r2.group_id, r2.user_id))
                  => r2.pc = "done" /\ r2.status = 403
             /\ r2.op = "get_groups"
                  => \A g \in r2.result : ~HasLeft(g, r2.user_id)
    ]_vars

C29_Witness ==
    /\ HasLeft(1, "u1")
    /\ req[1].op = "leave_group" /\ req[1].status = 200
    /\ req[2].op = "upload_photo" /\ req[2].pc = "done" /\ req[2].status = 403

\* C30: a request of upload_photo, get_upload_url or confirm_upload gets past
\* its first step (an upload under way, a signed URL handed out, a Photo row
\* inserted) only when its caller has an active membership in the group.
C30_PhotoEndpointsAreGated ==
    [][\A p \in Procs :
        LET r == req[p]
            r2 == req'[p]
        IN (/\ r.pc = "idle"
            /\ r2.op \in {"upload_photo", "get_upload_url", "confirm_upload"}
            /\ \/ r2.pc \notin {"done", "idle"}
               \/ photos' # photos
               \/ upload_urls' # upload_urls)
           => IsActiveMember(r2.group_id, r2.user_id)
    ]_vars

\* C25: redeem_invite finds an invite (and goes on to the membership write)
\* only when the invite's used_at is null and now is strictly before its
\* expires_at; when every invite of the code is used or has now >= expires_at
\* the answer is 404 and no membership changes.
C25_RedeemOnlyBeforeExpiry ==
    [][\A p \in Procs :
        LET r == req[p]
            r2 == req'[p]
        IN (r.pc = "idle" /\ r2.op = "redeem_invite")
           => IF \E j \in 1..Len(invites) :
                    /\ invites[j].code = Upper(r2.code)
                    /\ invites[j].used_at = Null
                    /\ now < invites[j].expires_at
              THEN r2.status # 404
              ELSE /\ r2.pc = "done" /\ r2.status = 404
                   /\ group_members' = group_members
    ]_vars

\* no two invites that are unredeemed and unexpired at t have the same code
NoLiveCodeTwice(rows, t) ==
    \A j, k \in 1..Len(rows) :
        (/\ j # k
         /\ InviteIsLive(rows[j], t) /\ InviteIsLive(rows[k], t))
        => rows[j].code # rows[k].code

\* C26: no two unredeemed, unexpired invites share a code, and send_invites
\* answers a code collision by generating again: it fails on a collision only
\* when no code it can generate is free.
C26_CollisionIsRetried ==
    [][/\ NoLiveCodeTwice(invites', now')
       /\ \A p \in Procs :
            LET r == req[p]
                r2 == req'[p]
            IN (/\ r.pc = "si_insert" /\ r2.pc = "done"
                /\ r2.detail = "duplicate key")
               => \A code \in GenCodes : InviteInsertConflicts(code, now)
    ]_vars

\* the pending invites to the phone for the group created within the window
PendingRecentInvites(phone, g, t) ==
    {j \in RecentInvites(phone, g, t) : InviteIsLive(invites[j], t)}

\* C27: for each phone of a send_invites call, a new invite is issued exactly
\* when no unredeemed, unexpired invite to that phone for the same group was
\* created within the last 24 hours; a phone whose only recent invite is
\* redeemed gets a new one.
C27_IssuedIffNoPendingRecent ==
    [][\A p \in Procs :
        LET r == req[p]
            r2 == req'[p]
        IN (r.pc = "si_recent" /\ r.i <= Len(r.phones) /\ r2 # r)
           => (r2.pc = "si_insert"
                 <=> PendingRecentInvites(r.phones[r.i], r.group_id, now) = {})
    ]_vars

\* C28: once send_invites has handled an existing user (added, or found to be
\* there already), the user has exactly one membership row in the group and
\* it is active; a user found to be there already is not counted as added.
C28_ExistingUserEndsActive ==
    [][\A p \in Procs :
        LET r == req[p]
            r2 == req'[p]
        IN (/\ r.pc \in {"si_member", "si_add"} /\ r.i <= Len(r.existing)
            /\ r2.pc = "si_member" /\ r2.i = r.i + 1)
           => /\ group_members'[<<r.group_id, r.existing[r.i]>>] = <<TRUE>>
              /\ r.pc = "si_member" => r2.added = r.added
    ]_vars

\* C31: of the redeem_invite requests of different users that run at the same
\* time on one invite, at most one writes a membership (inserts the row or
\* reactivates it).
C31_OneRedeemerPerInvite ==
    \A p, q \in Procs :
        (/\ req[p].op = "redeem_invite" /\ req[p].changed
         /\ req[q].op = "redeem_invite" /\ req[q].changed
         /\ req[p].invite = req[q].invite)
        => req[p].user_id = req[q].user_id

\* C32: a create_group request gets past validation only with a name that,
\* trimmed, is not empty and has at most 50 characters, and the name a group
\* is stored with is trimmed and not empty.
C32_NoEmptyGroupName ==
    [][/\ \A p \in Procs :
            LET r == req[p]
                r2 == req'[p]
            IN (r.pc = "idle" /\ r2.op = "create_group" /\ r2.pc # "done")
               => /\ r2.name # <<>>
                  /\ Len(r2.name) <= MaxNameLen
       /\ Len(groups') > Len(groups)
            => LET name == groups'[Len(groups')].name
               IN name # <<>> /\ Strip(name) = name
    ]_vars

\* C33: update_group answers 403 to a caller without active membership,
\* whatever the name, and goes on to the update only with a name create_group
\* accepts: not empty after trimming and of at most 50 characters.
C33_RenameAcceptsCreateNames ==
    [][\A p \in Procs :
        LET r == req[p]
            r2 == req'[p]
        IN (r.pc = "idle" /\ r2.op = "update_group")
           => /\ ~IsActiveMember(r2.group_id, r2.user_id)
                   => r2.pc = "done" /\ r2.status = 403
              /\ r2.pc = "ug_update"
                   => /\ NameSchemaOk(r2.name)
                      /\ Strip(r2.name) # <<>>
              /\ r2.pc = "done" => groups' = groups
    ]_vars

\* the photos of g that are active at t: now is before their expiry
UnexpiredPhotos(g, t) ==
    {j \in 1..Len(photos) : photos[j].group_id = g /\ t < photos[j].expires_at}

\* C34: the last_photo get_groups reads for a group is a photo of the group
\* that has not expired, the most recent of these; when the group has no
\* unexpired photo, none is reported.
C34_LastPhotoIsActive ==
    [][\A p \in Procs :
        LET r == req[p]
            r2 == req'[p]
        IN (r.pc = "gg_photo" /\ r2 # r)
           => \A x \in r2.last_photo \ r.last_photo :
                LET live == UnexpiredPhotos(x[1], now)
                IN IF live = {} THEN x[2] = 0
                   ELSE \E j \in live :
                          /\ photos[j].id = x[2]
                          /\ \A k \in live : photos[k].created_at <= photos[j].created_at
    ]_vars

\* the photo row existed when the listing q.at was read and the listing left
\* it out
LeftOut(row, q) ==
    /\ q.op = "get_todays_photos" /\ q.pc = "done" /\ q.status = 200
    /\ q.group_id = row.group_id
    /\ row.created_at < q.at
    /\ row.id \notin q.result

\* C35: no step changes a Photo row that is there or takes the clock back,
\* and a photo that a get_todays_photos listing left out is in no listing
\* read after it.
C35_ExpiredIsTerminal ==
    [][/\ Len(photos') >= Len(photos)
       /\ \A j \in 1..Len(photos) : photos'[j] = photos[j]
       /\ now' >= now
       /\ \A p, q \in Procs :
            (req[p].pc = "gp_read" /\ req'[p].pc = "done" /\ req'[p].status = 200)
            => \A j \in 1..Len(photos) :
                 LeftOut(photos[j], req[q]) => photos[j].id \notin req'[p].result
    ]_vars

C35_Witness ==
    \E j \in 1..Len(photos) :
        /\ LeftOut(photos[j], req[1])
        /\ LeftOut(photos[j], req[2])
        /\ req[1].at < req[2].at

\* C36: every Photo row is inserted (by upload_photo or confirm_upload) with
\* created_at the time of the insert and expires_at 48 hours later, and the
\* expires_at an upload_photo request answers with is that of its row.
C36_ExpiresTwoDaysAfterInsert ==
    [][/\ Len(photos') > Len(photos)
            => LET row == photos'[Len(photos')]
               IN /\ row.created_at = now
                  /\ row.expires_at = now + PhotoTtlDays * TicksPerDay
       /\ \A p \in Procs :
            LET r == req[p]
                r2 == req'[p]
            IN (/\ r.pc = "up_mark" /\ r2.pc = "done" /\ r2.status = 200)
               => \E j \in 1..Len(photos) :
                    /\ photos[j].id = r2.photo_id
                    /\ r2.expires_at = photos[j].expires_at
                    /\ r2.expires_at = photos[j].created_at + PhotoTtlDays * TicksPerDay
    ]_vars

C36_Witness ==
    \E p, q \in Procs, j, k \in 1..Len(photos) :
        /\ req[p].op = "upload_photo" /\ req[p].pc = "done" /\ req[p].status = 200
        /\ photos[j].id = req[p].photo_id
        /\ photos[j].created_at > 0
        /\ req[p].expires_at = photos[j].created_at + PhotoTtlDays * TicksPerDay
        /\ req[q].op = "confirm_upload" /\ req[q].pc = "done" /\ req[q].status = 200
        /\ photos[k].id = req[q].photo_id

\* C38: when a fan-out has resolved its device tokens, a notification is
\* dispatched for every one of them, whatever the platform it was registered
\* with.
C38_OneDispatchPerToken ==
    [][\A p \in Procs :
        LET r == req[p]
            r2 == req'[p]
        IN (r.pc = "nf_devices" /\ r2.pc = "done" /\ r2.detail = "sent")
           => r2.dispatched = r2.result
    ]_vars

\* the tables a caller's operation commits to
Tables == <<groups, group_members, daily_sends, photos, blobs, invites>>

SwallowedDetail == "Failed to send group notification"

\* C37: a step of a side task, failing or not, changes no table and no
\* request's answer: when an invite SMS task has run the invite it was queued
\* for is still there and what send_invites reported is as it was, and a
\* send_group_notification that fails at any of its reads ends with the
\* error printed and nothing raised.
C37_SideTaskFailureIsSwallowed ==
    [][/\ sms_outbox' # sms_outbox /\ sms_outbox' \subseteq sms_outbox
            => /\ Tables' = Tables
               /\ req' = req
               /\ \A task \in sms_outbox \ sms_outbox' :
                    \E j \in 1..Len(invites') :
                       /\ invites'[j].phone_number = task[1]
                       /\ invites'[j].code = task[2]
       /\ \A p \in Procs :
            LET r == req[p]
                r2 == req'[p]
            IN (r2 # r /\ r2.op = "notify" /\ r2.detail = SwallowedDetail)
               => /\ r2.pc = "done" /\ r2.status = 0
                  /\ Tables' = Tables
                  /\ \A q \in Procs \ {p} : req'[q] = req[q]
    ]_vars

C37_Witness ==
    /\ req[1].op = "send_invites" /\ req[1].pc = "done"
    /\ req[1].status = 200 /\ req[1].issued = 1
    /\ sms_outbox = {} /\ sms_sent = {}
    /\ Len(invites) = 1
    /\ req[2].op = "notify" /\ req[2].pc = "done" /\ req[2].detail = SwallowedDetail
    /\ req[2].members # {}

\* C39: a step that changes a membership (leave_group, redeem_invite) leaves
\* the ledger as it is; an upload_photo whose daily-limit read finds the
\* caller's record of the group for today is answered 400 AlreadySent,
\* whatever happened to the membership since the record was made; and an
\* upload_photo is answered AlreadySent only when the record is of today.
C39_LedgerOutlivesMembership ==
    [][/\ group_members' # group_members => daily_sends' = daily_sends
       /\ \A p \in Procs :
            LET r == req[p]
                r2 == req'[p]
                sent == DailySendRows(r.user_id, r.group_id, Date(now)) # {}
            IN (r.op = "upload_photo" /\ r.pc = "up_daily" /\ r2 # r)
               => /\ sent => /\ r2.pc = "done" /\ r2.status = 400
                             /\ r2.detail = AlreadySentDetail
                             /\ store' = store
                  /\ (r2.status = 400 /\ r2.detail = AlreadySentDetail) => sent
    ]_vars

\* u1 sent today, left, came back through an invite and is refused a second
\* upload
C39_Witness ==
    /\ req[1].op = "redeem_invite" /\ req[1].pc = "done" /\ req[1].status = 200
    /\ req[1].row_case = "inactive"
    /\ IsActiveMember(1, "u1")
    /\ req[2].op = "upload_photo" /\ req[2].pc = "done" /\ req[2].status = 400
    /\ req[2].detail = AlreadySentDetail
    /\ req[2].today = Date(now)
    /\ \E j \in 1..Len(daily_sends) : daily_sends[j].sent_date # Date(now)

====
